---- MODULE Spec2Model ----
(***************************************************************************)
(* Model of the mutant prioritisation core: MultiFactorScorer (score_all,  *)
(* score_single, explain_score) with its HistoryTracker and CodeAnalyzer,  *)
(* SubsumptionAnalyzer (the four stages of filter_redundant) with its      *)
(* CoverageMapper, and MutantClusterer.                                    *)
(*                                                                         *)
(* Python floats are modelled as exact rationals <<numerator, denominator>>*)
(* kept in lowest terms, so equality of two scores is equality of tuples.  *)
(***************************************************************************)
EXTENDS Integers, Sequences, FiniteSets, TLC

VARIABLES
    mutants,        \* the caller's working list of Mutant records
    inp,            \* the list handed to the last batch operation, as it was before the
                    \* call (for compute_similarity and get_operator_history: the
                    \* arguments)
    op,             \* the last operation that ran
    arg,            \* index (in inp) of the mutant handed to score_single / explain_score
                    \* (for cluster: the clusterer's proximity_threshold)
    ret,            \* value returned by the last score_single, compute_similarity,
                    \* get_operator_history or cluster
    explanation,    \* dict returned by the last explain_score
    err,            \* exception raised by the last operation, or "none"
    scored,         \* the working list went through score_all
    file_metrics,   \* metrics provider: what CodeAnalyzer.analyze_file returns per file
    bug_history,    \* CodeAnalyzer._bug_history
    history,        \* HistoryTracker.data
    metrics_cache,  \* MultiFactorScorer._metrics_cache
    stats,          \* SubsumptionAnalyzer.stats
    similarity_threshold, \* SubsumptionAnalyzer.similarity_threshold, in percent
    cov_cache,      \* CoverageMapper._cache
    returned_map    \* dict returned by the last map_mutant_coverage

vars == <<mutants, inp, op, arg, ret, explanation, err, scored, file_metrics,
          bug_history, history, metrics_cache, stats, similarity_threshold,
          cov_cache, returned_map>>

scorerVars == <<ret, explanation, scored, metrics_cache>>
providerVars == <<file_metrics, bug_history, history>>
analyzerVars == <<stats, similarity_threshold, cov_cache, returned_map>>

----------------------------------------------------------------------------
(* Bounds of the model *)

\* longest batch handed to the scorer
MaxBatch == 3

\* longest list handed to the analyzer
MaxLen == 3

\* number of test ids the arguments of compute_similarity are drawn from
MaxTests == 4

\* longest list of executed mutants handed to HistoryTracker.update
MaxExecuted == 2

\* number of mutants a tracker records over its life
MaxRecorded == 3

----------------------------------------------------------------------------
(* Float arithmetic, as exact rationals in lowest terms *)

Abs(x) == IF x < 0 THEN -x ELSE x

RECURSIVE GCD(_, _)
GCD(a, b) == IF b = 0 THEN a ELSE GCD(b, a % b)

Rat(n, d) ==
    LET g == GCD(Abs(n), Abs(d))
        s == IF d < 0 THEN -1 ELSE 1
    IN  <<(s * n) \div g, (s * d) \div g>>

Zero == <<0, 1>>
One == <<1, 1>>
Half == <<1, 2>>

RAdd(a, b) == Rat(a[1] * b[2] + b[1] * a[2], a[2] * b[2])
RSub(a, b) == Rat(a[1] * b[2] - b[1] * a[2], a[2] * b[2])
RMul(a, b) == Rat(a[1] * b[1], a[2] * b[2])
RDiv(a, b) == Rat(a[1] * b[2], a[2] * b[1])
RLe(a, b) == a[1] * b[2] <= b[1] * a[2]
RLt(a, b) == a[1] * b[2] < b[1] * a[2]
RMin(a, b) == IF RLe(a, b) THEN a ELSE b

\* min(values) and max(values) of a non-empty list of floats
RECURSIVE SeqMin(_)
SeqMin(s) ==
    IF Len(s) = 1 THEN s[1]
    ELSE LET m == SeqMin(Tail(s)) IN IF RLe(s[1], m) THEN s[1] ELSE m

RECURSIVE SeqMax(_)
SeqMax(s) ==
    IF Len(s) = 1 THEN s[1]
    ELSE LET m == SeqMax(Tail(s)) IN IF RLe(m, s[1]) THEN s[1] ELSE m

\* [F(x) for x in s]: a list comprehension, built element by element
RECURSIVE MapSeq(_, _)
MapSeq(F(_), s) ==
    IF s = <<>> THEN <<>> ELSE <<F(Head(s))>> \o MapSeq(F, Tail(s))

----------------------------------------------------------------------------
(* models.py *)

MutationOperator ==
    {"ARITHMETIC", "BOUNDARY", "CONDITIONAL", "NEGATE", "RETURN", "REMOVE_COND",
     "VOID_CALL", "INCREMENT", "LOGICAL", "OTHER"}

MutantStatus == {"PENDING", "RUNNING", "KILLED", "SURVIVED", "TIMEOUT", "ERROR"}

\* CodeMetrics(): the dataclass defaults
DefaultCodeMetrics ==
    [cyclomatic_complexity |-> 0, cognitive_complexity |-> 0, nesting_depth |-> 0,
     number_of_parameters |-> 0, is_public_api |-> FALSE,
     is_security_critical |-> FALSE, last_modified_days_ago |-> 999]

HistoricalData(operator, gen, killed, survived) ==
    [operator |-> operator, times_generated |-> gen, times_killed |-> killed,
     times_survived |-> survived]

\* HistoricalData.kill_rate
kill_rate(h) ==
    LET total == h.times_killed + h.times_survived
    IN  IF total = 0 THEN Half ELSE Rat(h.times_killed, total)

\* Optional[...] fields: <<>> is None, <<x>> is x
None == <<>>
Some(x) == <<x>>

\* Mutant(...) as the generators build it: no metrics, no history, score 0.0
Mutant(id, file, line, col, operator, mutated) ==
    [id |-> id, file_path |-> file, line_start |-> line, column_start |-> col,
     operator |-> operator, original_code |-> "a + b", mutated_code |-> mutated,
     status |-> "PENDING", code_metrics |-> None, historical_data |-> None,
     priority_score |-> Zero]

----------------------------------------------------------------------------
(* history_tracker.py *)

\* HistoryTracker._initialize_defaults: the store of a tracker with no history file
InitialHistory ==
    LET defaults ==
            [ARITHMETIC |-> <<100, 75, 25>>, BOUNDARY |-> <<100, 85, 15>>,
             CONDITIONAL |-> <<100, 70, 30>>, NEGATE |-> <<100, 80, 20>>,
             RETURN |-> <<100, 65, 35>>, REMOVE_COND |-> <<100, 60, 40>>,
             INCREMENT |-> <<100, 72, 28>>, LOGICAL |-> <<100, 78, 22>>,
             VOID_CALL |-> <<100, 45, 55>>]
    IN  [o \in DOMAIN defaults |->
            HistoricalData(o, defaults[o][1], defaults[o][2], defaults[o][3])]

\* the lookup as it would be with an empty record for an unknown operator
get_operator_historyEmptyDefault(operator) ==
    IF operator \in DOMAIN history
    THEN history[operator]
    ELSE HistoricalData(operator, 0, 0, 0)

\* HistoryTracker.get_operator_history
get_operator_history(operator) ==
    IF operator \in DOMAIN history
    THEN history[operator]
    ELSE HistoricalData(operator, 10, 5, 5)

\* one round of update's loop as it would be if a timeout counted as survived
UpdateOneTimeoutSurvives(h, m) ==
    LET key == m.operator
        h1 == IF key \in DOMAIN h THEN h
              ELSE [o \in DOMAIN h \cup {key} |->
                       IF o = key THEN HistoricalData(key, 0, 0, 0) ELSE h[o]]
        hist == h1[key]
    IN  [h1 EXCEPT ![key] =
            [hist EXCEPT
                !.times_generated = @ + 1,
                !.times_killed = IF m.status = "KILLED" THEN @ + 1 ELSE @,
                !.times_survived =
                    IF m.status \in {"SURVIVED", "TIMEOUT"} THEN @ + 1 ELSE @]]

\* one round of update's loop as it would be if it always started a new entry
UpdateOneFreshEntry(h, m) ==
    LET key == m.operator
        h1 == [o \in DOMAIN h \cup {key} |->
                  IF o = key THEN HistoricalData(key, 0, 0, 0) ELSE h[o]]
        hist == h1[key]
    IN  [h1 EXCEPT ![key] =
            [hist EXCEPT
                !.times_generated = @ + 1,
                !.times_killed = IF m.status = "KILLED" THEN @ + 1 ELSE @,
                !.times_survived = IF m.status = "SURVIVED" THEN @ + 1 ELSE @]]

\* one round of HistoryTracker.update's loop: the store after recording mutant m
\* (average_detection_time is not part of the model's HistoricalData)
UpdateOne(h, m) ==
    LET key == m.operator
        h1 == IF key \in DOMAIN h THEN h
              ELSE [o \in DOMAIN h \cup {key} |->
                       IF o = key THEN HistoricalData(key, 0, 0, 0) ELSE h[o]]
        hist == h1[key]
    IN  [h1 EXCEPT ![key] =
            [hist EXCEPT
                !.times_generated = @ + 1,
                !.times_killed = IF m.status = "KILLED" THEN @ + 1 ELSE @,
                !.times_survived = IF m.status = "SURVIVED" THEN @ + 1 ELSE @]]

\* HistoryTracker.update: the store after the loop over the list
RECURSIVE update(_, _)
update(h, ms) ==
    IF ms = <<>> THEN h ELSE update(UpdateOne(h, Head(ms)), Tail(ms))

----------------------------------------------------------------------------
(* code_analyzer.py *)

\* analyze_file raises for this path (os.path.splitext rejects a path that is
\* no string; an analyzer handed to the scorer may raise for any file)
AnalyzeFileRaises(file_path) == file_path \notin DOMAIN file_metrics

\* CodeAnalyzer.analyze_file: the metrics of a file, computed once and cached
analyze_file(file_path) == file_metrics[file_path]

\* CodeAnalyzer.get_historical_bug_count
get_historical_bug_count(file_path) ==
    IF file_path \in DOMAIN bug_history THEN bug_history[file_path] ELSE 0

----------------------------------------------------------------------------
(* multi_factor_scorer.py *)

FactorNames == {"historical", "complexity", "security", "recency", "bug_history"}

WEIGHTS ==
    [historical |-> Rat(30, 100), complexity |-> Rat(25, 100),
     security |-> Rat(20, 100), recency |-> Rat(15, 100),
     bug_history |-> Rat(10, 100)]

\* sum(WEIGHTS[f] * factors[f] for f in factors), in the dict's insertion order
WeightedSum(factors) ==
    RAdd(RAdd(RAdd(RAdd(RMul(WEIGHTS.historical, factors.historical),
                        RMul(WEIGHTS.complexity, factors.complexity)),
                   RMul(WEIGHTS.security, factors.security)),
              RMul(WEIGHTS.recency, factors.recency)),
         RMul(WEIGHTS.bug_history, factors.bug_history))

\* math.exp(-days / 10.0) to two decimals, for the ages of the metrics the model
\* draws; exp(-99.9) is below 1e-43 and is taken as 0
ExpDecay(days) ==
    CASE days = 0 -> One
      [] days = 5 -> Rat(61, 100)
      [] days = 10 -> Rat(37, 100)
      [] OTHER -> Zero

_historical_factor(m) ==
    IF m.historical_data = None THEN Half ELSE kill_rate(m.historical_data[1])

_complexity_factor(m) ==
    IF m.code_metrics = None THEN Half
    ELSE LET metrics == m.code_metrics[1]
         IN  RAdd(RAdd(RAdd(
                 RMul(Rat(4, 10), RMin(Rat(metrics.cyclomatic_complexity, 20), One)),
                 RMul(Rat(3, 10), RMin(Rat(metrics.cognitive_complexity, 30), One))),
                 RMul(Rat(2, 10), RMin(Rat(metrics.nesting_depth, 5), One))),
                 RMul(Rat(1, 10), RMin(Rat(metrics.number_of_parameters, 8), One)))

_security_factor(m) ==
    IF m.code_metrics = None THEN Zero
    ELSE IF m.code_metrics[1].is_security_critical THEN One
    ELSE IF m.code_metrics[1].is_public_api THEN Rat(3, 10)
    ELSE Zero

_recency_factor(m) ==
    IF m.code_metrics = None THEN Zero
    ELSE ExpDecay(m.code_metrics[1].last_modified_days_ago)

_bug_history_factor(m) ==
    RMin(Rat(get_historical_bug_count(m.file_path), 10), One)

_compute_factors_single(m) ==
    [historical |-> _historical_factor(m), complexity |-> _complexity_factor(m),
     security |-> _security_factor(m), recency |-> _recency_factor(m),
     bug_history |-> _bug_history_factor(m)]

\* min-max scaling that forgets to subtract the minimum: v / (max - min)
MinMaxNormalizeNoShift(values) ==
    LET min_val == SeqMin(values)
        max_val == SeqMax(values)
    IN  IF RSub(max_val, min_val) = Zero
        THEN MapSeq(LAMBDA v : Half, values)
        ELSE MapSeq(LAMBDA v : RDiv(v, RSub(max_val, min_val)), values)

\* min-max scaling that answers 0 instead of 0.5 when max == min
MinMaxNormalizeZeroWhenEqual(values) ==
    LET min_val == SeqMin(values)
        max_val == SeqMax(values)
    IN  IF RSub(max_val, min_val) = Zero
        THEN MapSeq(LAMBDA v : Zero, values)
        ELSE MapSeq(LAMBDA v : RDiv(RSub(v, min_val), RSub(max_val, min_val)),
                    values)

\* min-max scaling of one factor's raw values; 0.5 everywhere when max == min
MinMaxNormalize(values) ==
    LET min_val == SeqMin(values)
        max_val == SeqMax(values)
    IN  IF RSub(max_val, min_val) = Zero
        THEN MapSeq(LAMBDA v : Half, values)
        ELSE MapSeq(LAMBDA v : RDiv(RSub(v, min_val), RSub(max_val, min_val)),
                    values)

\* dict mutant.id -> {factor: normalized value}; a later mutant with the same id
\* overwrites the entry of an earlier one
_compute_normalized_factors(ms) ==
    LET raw == MapSeq(_compute_factors_single, ms)
        normalized ==
            [historical |-> MinMaxNormalize(MapSeq(LAMBDA r : r.historical, raw)),
             complexity |-> MinMaxNormalize(MapSeq(LAMBDA r : r.complexity, raw)),
             security |-> MinMaxNormalize(MapSeq(LAMBDA r : r.security, raw)),
             recency |-> MinMaxNormalize(MapSeq(LAMBDA r : r.recency, raw)),
             bug_history |-> MinMaxNormalize(MapSeq(LAMBDA r : r.bug_history, raw))]
        last(id) == CHOOSE i \in 1..Len(ms) :
                        /\ ms[i].id = id
                        /\ \A j \in (i + 1)..Len(ms) : ms[j].id # id
    IN  [id \in {ms[i].id : i \in 1..Len(ms)} |->
            [f \in FactorNames |-> normalized[f][last(id)]]]

_calculate_weighted_score(m, normalized) ==
    RMul(WeightedSum(normalized[m.id]), Rat(10, 1))

_weighted_sum(factors) == RMul(WeightedSum(factors), Rat(10, 1))

\* the loop as it would be if it recorded the mutant as running
RECURSIVE _precompute_metricsSetsRunning(_, _)
_precompute_metricsSetsRunning(ms, cache) ==
    IF ms = <<>> THEN [mutants |-> <<>>, cache |-> cache, err |-> "none"]
    ELSE LET m == Head(ms)
             f == m.file_path
         IN  IF f \notin DOMAIN cache /\ AnalyzeFileRaises(f)
             THEN [mutants |-> ms, cache |-> cache, err |-> "TypeError"]
             ELSE LET cache1 == IF f \in DOMAIN cache THEN cache
                                ELSE [g \in DOMAIN cache \cup {f} |->
                                         IF g = f THEN analyze_file(f) ELSE cache[g]]
                      m1 == [m EXCEPT !.code_metrics = Some(cache1[f]),
                                      !.historical_data =
                                          Some(get_operator_history(m.operator)),
                                      !.status = "RUNNING"]
                      rest == _precompute_metricsSetsRunning(Tail(ms), cache1)
                  IN  [mutants |-> <<m1>> \o rest.mutants, cache |-> rest.cache,
                       err |-> rest.err]

\* the mutants as the loop leaves them (metrics and history attached up to the
\* mutant whose file analyze_file raised for, the rest untouched), the metrics
\* cache, and the exception that ended the loop, if any
RECURSIVE _precompute_metrics(_, _)
_precompute_metrics(ms, cache) ==
    IF ms = <<>> THEN [mutants |-> <<>>, cache |-> cache, err |-> "none"]
    ELSE LET m == Head(ms)
             f == m.file_path
         IN  IF f \notin DOMAIN cache /\ AnalyzeFileRaises(f)
             THEN [mutants |-> ms, cache |-> cache, err |-> "TypeError"]
             ELSE LET cache1 == IF f \in DOMAIN cache THEN cache
                                ELSE [g \in DOMAIN cache \cup {f} |->
                                         IF g = f THEN analyze_file(f) ELSE cache[g]]
                      m1 == [m EXCEPT !.code_metrics = Some(cache1[f]),
                                      !.historical_data =
                                          Some(get_operator_history(m.operator))]
                      rest == _precompute_metrics(Tail(ms), cache1)
                  IN  [mutants |-> <<m1>> \o rest.mutants, cache |-> rest.cache,
                       err |-> rest.err]

\* an insertion that puts a mutant before the mutants of equal score
RECURSIVE InsertBeforeEqual(_, _)
InsertBeforeEqual(sorted, m) ==
    IF sorted = <<>> THEN <<m>>
    ELSE IF RLe(Head(sorted).priority_score, m.priority_score)
         THEN <<m>> \o sorted
         ELSE <<Head(sorted)>> \o InsertBeforeEqual(Tail(sorted), m)

\* list.sort(key=priority_score, reverse=True): stable, equal keys keep their order
RECURSIVE InsertByPriority(_, _)
InsertByPriority(sorted, m) ==
    IF sorted = <<>> THEN <<m>>
    ELSE IF RLt(Head(sorted).priority_score, m.priority_score)
         THEN <<m>> \o sorted
         ELSE <<Head(sorted)>> \o InsertByPriority(Tail(sorted), m)

RECURSIVE SortByPriority(_)
SortByPriority(ms) ==
    IF ms = <<>> THEN <<>>
    ELSE InsertByPriority(SortByPriority(SubSeq(ms, 1, Len(ms) - 1)), ms[Len(ms)])

\* score_all on a non-empty list (min() of an empty list raises ValueError)
score_all(ms, cache) ==
    LET pre == _precompute_metrics(ms, cache)
        normalized == _compute_normalized_factors(pre.mutants)
        with_scores ==
            MapSeq(LAMBDA m : [m EXCEPT !.priority_score =
                                   _calculate_weighted_score(m, normalized)],
                   pre.mutants)
    IN  IF pre.err # "none"
        THEN [mutants |-> pre.mutants, cache |-> pre.cache, err |-> pre.err]
        ELSE [mutants |-> SortByPriority(with_scores), cache |-> pre.cache,
              err |-> "none"]

\* explain_score: final_score and the weighted_contribution of each factor
explain_score(m) ==
    LET factors == _compute_factors_single(m)
    IN  [mutant_id |-> m.id,
         final_score |-> m.priority_score,
         raw_value |-> factors,
         weighted_contribution |->
             [f \in FactorNames |-> RMul(RMul(factors[f], WEIGHTS[f]), Rat(10, 1))]]

\* the object of the caller's list with this id, as the call left it
ObjectAfter(id, after) ==
    after[CHOOSE k \in 1..Len(after) : after[k].id = id]

\* list[i+1:] and list[:i] of the working list, in order: the other mutants
Others(ms, i) == SubSeq(ms, 1, i - 1) \o SubSeq(ms, i + 1, Len(ms))

----------------------------------------------------------------------------
(* coverage_mapper.py *)

\* cache_key = f"{file_path}:{line_start}"; the text determines the pair and back
CacheKey(m) == <<m.file_path, m.line_start>>

\* int(hashlib.md5(f"{file_path}:{line_start}".encode()).hexdigest(), 16) % 3000,
\* for the locations of the model; the test set depends on the hash through
\* hash % 6 and (hash + i) % 1000 only
HashValue(key) ==
    CASE key = <<"a.py", 10>> -> 1542
      [] key = <<"a.py", 12>> -> 2596
      [] key = <<"a.py", 16>> -> 2074
      [] key = <<"b.py", 10>> -> 377
      [] key = <<"b.py", 12>> -> 1202
      [] key = <<"b.py", 16>> -> 1998

\* file_path.replace('/', '_').replace('.', '_')
Mangle(file_path) ==
    CASE file_path = "a.py" -> "a_py"
      [] file_path = "b.py" -> "b_py"

\* f"test_{mangled file}_{test_hash}"
TestName(file_path, test_hash) == <<"test", Mangle(file_path), test_hash>>

\* the test set as it would be if the column entered the hash
_generate_test_setWithColumn(m) ==
    LET hash_value == HashValue(CacheKey(m)) + m.column_start
        num_tests == 3 + (hash_value % 6)
    IN  {TestName(m.file_path, (hash_value + i) % 1000) : i \in 0..(num_tests - 1)}

\* CoverageMapper._generate_test_set
_generate_test_set(m) ==
    LET hash_value == HashValue(CacheKey(m))
        num_tests == 3 + (hash_value % 6)
    IN  {TestName(m.file_path, (hash_value + i) % 1000) : i \in 0..(num_tests - 1)}

\* CoverageMapper._estimate_coverage: <<the test set, the cache afterwards>>
_estimate_coverage(m, cache) ==
    LET cache_key == CacheKey(m)
    IN  IF cache_key \in DOMAIN cache
        THEN <<cache[cache_key], cache>>
        ELSE <<_generate_test_set(m),
               [k \in DOMAIN cache \cup {cache_key} |->
                   IF k = cache_key THEN _generate_test_set(m) ELSE cache[k]]>>

\* CoverageMapper.map_mutant_coverage: the dict mutant.id -> test set, filled in
\* list order on top of coverage_map, and the cache afterwards
RECURSIVE MapCoverage(_, _, _)
MapCoverage(ms, coverage_map, cache) ==
    IF ms = <<>> THEN [coverage_map |-> coverage_map, cache |-> cache]
    ELSE LET e == _estimate_coverage(Head(ms), cache)
             id == Head(ms).id
         IN  MapCoverage(Tail(ms),
                         [k \in DOMAIN coverage_map \cup {id} |->
                             IF k = id THEN e[1] ELSE coverage_map[k]],
                         e[2])

map_mutant_coverage(ms, cache) == MapCoverage(ms, <<>>, cache)

\* the load as it would be if it kept the entries already cached
load_actual_coverageKeepCached(cache, coverage_data) ==
    [k \in DOMAIN cache \cup DOMAIN coverage_data |->
        IF k \in DOMAIN cache THEN cache[k] ELSE coverage_data[k]]

\* CoverageMapper.load_actual_coverage: self._cache.update(coverage_data)
load_actual_coverage(cache, coverage_data) ==
    [k \in DOMAIN cache \cup DOMAIN coverage_data |->
        IF k \in DOMAIN coverage_data THEN coverage_data[k] ELSE cache[k]]

\* the similarity as it would be with the first set's size as the denominator
compute_similarityOverFirst(tests1, tests2) ==
    IF tests1 = {} /\ tests2 = {} THEN One
    ELSE IF tests1 = {} \/ tests2 = {} THEN Zero
    ELSE Rat(Cardinality(tests1 \cap tests2), Cardinality(tests1))

\* CoverageMapper.compute_similarity
compute_similarity(tests1, tests2) ==
    IF tests1 = {} /\ tests2 = {} THEN One
    ELSE IF tests1 = {} \/ tests2 = {} THEN Zero
    ELSE LET intersection == Cardinality(tests1 \cap tests2)
             union == Cardinality(tests1 \cup tests2)
         IN  IF union > 0 THEN Rat(intersection, union) ELSE Zero

----------------------------------------------------------------------------
(* analyzer.py *)

\* OPERATOR_SUBSUMPTIONS.get(op, set())
OPERATOR_SUBSUMPTIONS(operator) ==
    CASE operator = "ARITHMETIC" -> {"INCREMENT"}
      [] operator = "BOUNDARY" -> {"NEGATE"}
      [] operator = "RETURN" -> {"VOID_CALL"}
      [] OTHER -> {}

\* SubsumptionAnalyzer._are_operators_related
_are_operators_related(op1, op2) ==
    LET arithmetic_ops == {"ARITHMETIC", "INCREMENT"}
        conditional_ops == {"CONDITIONAL", "NEGATE", "REMOVE_COND", "BOUNDARY"}
    IN  \/ op1 = op2
        \/ op2 \in OPERATOR_SUBSUMPTIONS(op1)
        \/ op1 \in OPERATOR_SUBSUMPTIONS(op2)
        \/ (op1 \in arithmetic_ops /\ op2 \in arithmetic_ops)
        \/ (op1 \in conditional_ops /\ op2 \in conditional_ops)

\* [m for m in mutants if m.id not in to_remove]
WithoutRemoved(ms, to_remove) == SelectSeq(ms, LAMBDA m : m.id \notin to_remove)

\* stage 1 as it would be with the mutant's id made part of the key
DuplicateKeyWithId(m) ==
    <<m.id, m.file_path, m.line_start, m.column_start, m.operator, m.original_code,
      m.mutated_code>>

\* stage 1 as it would be with the operator left out of the key
DuplicateKeyNoOperator(m) ==
    <<m.file_path, m.line_start, m.column_start, m.original_code, m.mutated_code>>

\* the hash key of stage 1
DuplicateKey(m) ==
    <<m.file_path, m.line_start, m.column_start, m.operator, m.original_code,
      m.mutated_code>>

RECURSIVE DuplicateScan(_, _)
DuplicateScan(ms, seen) ==
    IF ms = <<>> THEN [unique |-> <<>>, duplicates |-> 0]
    ELSE LET key == DuplicateKey(Head(ms))
             r == DuplicateScan(Tail(ms), seen \cup {key})
         IN  IF key \notin seen
             THEN [unique |-> <<Head(ms)>> \o r.unique, duplicates |-> r.duplicates]
             ELSE [unique |-> r.unique, duplicates |-> r.duplicates + 1]

\* SubsumptionAnalyzer._remove_exact_duplicates: the list returned and the
\* number added to stats['exact_duplicates']
_remove_exact_duplicates(ms) == DuplicateScan(ms, {})

\* the key of stage 2
LocationKey(m) == <<m.file_path, m.line_start, m.column_start>>

\* the keys as they would be if every mutant opened a group of its own key
KeysInOrderRepeated(keys, seen) == keys

\* keys of a defaultdict filled in list order: by first occurrence
RECURSIVE KeysInOrder(_, _)
KeysInOrder(keys, seen) ==
    IF keys = <<>> THEN <<>>
    ELSE IF Head(keys) \in seen
         THEN KeysInOrder(Tail(keys), seen)
         ELSE <<Head(keys)>> \o KeysInOrder(Tail(keys), seen \cup {Head(keys)})

\* the maximum as it would be if a later mutant of equal score replaced the best
RECURSIVE MaxFromLast(_, _)
MaxFromLast(best, rest) ==
    IF rest = <<>> THEN best
    ELSE MaxFromLast(IF RLe(best.priority_score, Head(rest).priority_score)
                     THEN Head(rest) ELSE best,
                     Tail(rest))

\* max(group, key=priority_score): the first of the mutants of highest score
RECURSIVE MaxFrom(_, _)
MaxFrom(best, rest) ==
    IF rest = <<>> THEN best
    ELSE MaxFrom(IF RLt(best.priority_score, Head(rest).priority_score)
                 THEN Head(rest) ELSE best,
                 Tail(rest))

MaxByPriority(group) == MaxFrom(Head(group), Tail(group))

RECURSIVE SumSeq(_)
SumSeq(s) == IF s = <<>> THEN 0 ELSE Head(s) + SumSeq(Tail(s))

\* SubsumptionAnalyzer._cluster_by_location: the list returned and the number
\* added to stats['location_clustered']
_cluster_by_location(ms) ==
    LET keys == KeysInOrder(MapSeq(LocationKey, ms), {})
        Group(k) == SelectSeq(ms, LAMBDA m : LocationKey(m) = k)
    IN  [selected |->
             MapSeq(LAMBDA k : IF Len(Group(k)) = 1 THEN Group(k)[1]
                               ELSE MaxByPriority(Group(k)),
                    keys),
         clustered |->
             SumSeq(MapSeq(LAMBDA k : IF Len(Group(k)) = 1 THEN 0
                                      ELSE Len(Group(k)) - 1,
                           keys))]

\* file_mutants.sort(key=line_start): stable
RECURSIVE InsertByLine(_, _)
InsertByLine(sorted, m) ==
    IF sorted = <<>> THEN <<m>>
    ELSE IF m.line_start < Head(sorted).line_start
         THEN <<m>> \o sorted
         ELSE <<Head(sorted)>> \o InsertByLine(Tail(sorted), m)

RECURSIVE SortByLine(_)
SortByLine(ms) ==
    IF ms = <<>> THEN <<>>
    ELSE InsertByLine(SortByLine(SubSeq(ms, 1, Len(ms) - 1)), ms[Len(ms)])

\* the inner loop of stage 3 as it would be without the 5-line window
RECURSIVE OperatorInnerNoWindow(_, _, _, _)
OperatorInnerNoWindow(file_mutants, i, j, acc) ==
    IF j > Len(file_mutants) THEN acc
    ELSE LET m1 == file_mutants[i]
             m2 == file_mutants[j]
         IN  IF m2.id \in acc.to_remove
             THEN OperatorInnerNoWindow(file_mutants, i, j + 1, acc)
             ELSE IF m2.operator \in OPERATOR_SUBSUMPTIONS(m1.operator)
             THEN OperatorInnerNoWindow(file_mutants, i, j + 1,
                                        [to_remove |-> acc.to_remove \cup {m2.id},
                                         count |-> acc.count + 1])
             ELSE OperatorInnerNoWindow(file_mutants, i, j + 1, acc)

\* the inner loop of stage 3 from position j on, for m1 = file_mutants[i];
\* acc holds to_remove and the number of increments of stats['operator_subsumed']
RECURSIVE OperatorInner(_, _, _, _)
OperatorInner(file_mutants, i, j, acc) ==
    IF j > Len(file_mutants) THEN acc
    ELSE LET m1 == file_mutants[i]
             m2 == file_mutants[j]
         IN  IF m2.id \in acc.to_remove
             THEN OperatorInner(file_mutants, i, j + 1, acc)
             ELSE IF Abs(m2.line_start - m1.line_start) > 5
             THEN acc
             ELSE IF m2.operator \in OPERATOR_SUBSUMPTIONS(m1.operator)
             THEN OperatorInner(file_mutants, i, j + 1,
                                [to_remove |-> acc.to_remove \cup {m2.id},
                                 count |-> acc.count + 1])
             ELSE OperatorInner(file_mutants, i, j + 1, acc)

RECURSIVE OperatorOuter(_, _, _)
OperatorOuter(file_mutants, i, acc) ==
    IF i > Len(file_mutants) THEN acc
    ELSE OperatorOuter(file_mutants, i + 1,
                       IF OPERATOR_SUBSUMPTIONS(file_mutants[i].operator) = {}
                       THEN acc
                       ELSE OperatorInner(file_mutants, i, i + 1, acc))

RECURSIVE OperatorFiles(_, _, _)
OperatorFiles(files, ms, acc) ==
    IF files = <<>> THEN acc
    ELSE OperatorFiles(
             Tail(files), ms,
             OperatorOuter(
                 SortByLine(SelectSeq(ms, LAMBDA m : m.file_path = Head(files))),
                 1, acc))

FilePathOf(m) == m.file_path

\* SubsumptionAnalyzer._apply_operator_subsumption: the list returned and the
\* number added to stats['operator_subsumed']
_apply_operator_subsumption(ms) ==
    LET acc == OperatorFiles(KeysInOrder(MapSeq(FilePathOf, ms), {}), ms,
                             [to_remove |-> {}, count |-> 0])
    IN  [remaining |-> WithoutRemoved(ms, acc.to_remove), subsumed |-> acc.count]

\* the test of stage 4 as it would be without the superset condition
CoverageSubsumesNoSuperset(c1, c2, threshold) ==
    /\ Cardinality(c2) > 0
    /\ 100 * Cardinality(c1 \cap c2) >= threshold * Cardinality(c1 \cup c2)

\* the test of stage 4 as it would be with the comparison turned round
CoverageSubsumesAtMost(c1, c2, threshold) ==
    /\ c2 \subseteq c1
    /\ Cardinality(c2) > 0
    /\ 100 * Cardinality(c1 \cap c2) <= threshold * Cardinality(c1 \cup c2)

\* c1.issuperset(c2) and len(c2) > 0 and
\* len(c1 & c2) / len(c1 | c2) >= similarity_threshold (threshold in percent)
CoverageSubsumes(c1, c2, threshold) ==
    /\ c2 \subseteq c1
    /\ Cardinality(c2) > 0
    /\ 100 * Cardinality(c1 \cap c2) >= threshold * Cardinality(c1 \cup c2)

\* the inner loop of stage 4 as it would be if it left the loop after a removal
RECURSIVE CoverageInnerBreakAfterRemoval(_, _, _, _, _, _)
CoverageInnerBreakAfterRemoval(ms, coverage_map, threshold, i, j, acc) ==
    IF j > Len(ms) THEN acc
    ELSE IF ms[j].id \in acc.to_remove
         THEN CoverageInnerBreakAfterRemoval(ms, coverage_map, threshold, i, j + 1, acc)
    ELSE IF ~_are_operators_related(ms[i].operator, ms[j].operator)
         THEN CoverageInnerBreakAfterRemoval(ms, coverage_map, threshold, i, j + 1, acc)
    ELSE IF CoverageSubsumes(coverage_map[ms[i].id], coverage_map[ms[j].id],
                             threshold)
         THEN [to_remove |-> acc.to_remove \cup {ms[j].id}, count |-> acc.count + 1]
    ELSE CoverageInnerBreakAfterRemoval(ms, coverage_map, threshold, i, j + 1, acc)

\* the inner loop of stage 4 over mutants[j:], for m1 = mutants[i]
RECURSIVE CoverageInner(_, _, _, _, _, _)
CoverageInner(ms, coverage_map, threshold, i, j, acc) ==
    IF j > Len(ms) THEN acc
    ELSE IF ms[j].id \in acc.to_remove
         THEN CoverageInner(ms, coverage_map, threshold, i, j + 1, acc)
    ELSE IF ~_are_operators_related(ms[i].operator, ms[j].operator)
         THEN CoverageInner(ms, coverage_map, threshold, i, j + 1, acc)
    ELSE IF CoverageSubsumes(coverage_map[ms[i].id], coverage_map[ms[j].id],
                             threshold)
         THEN CoverageInner(ms, coverage_map, threshold, i, j + 1,
                            [to_remove |-> acc.to_remove \cup {ms[j].id},
                             count |-> acc.count + 1])
    ELSE CoverageInner(ms, coverage_map, threshold, i, j + 1, acc)

\* the outer loop as it would be without the skip of an m1 already removed
RECURSIVE CoverageOuterNoSkip(_, _, _, _, _)
CoverageOuterNoSkip(ms, coverage_map, threshold, i, acc) ==
    IF i > Len(ms) THEN acc
    ELSE CoverageOuterNoSkip(ms, coverage_map, threshold, i + 1,
                             CoverageInner(ms, coverage_map, threshold, i, i + 1, acc))

\* the outer loop of stage 4: an m1 that was removed is skipped
RECURSIVE CoverageOuter(_, _, _, _, _)
CoverageOuter(ms, coverage_map, threshold, i, acc) ==
    IF i > Len(ms) THEN acc
    ELSE CoverageOuter(ms, coverage_map, threshold, i + 1,
                       IF ms[i].id \in acc.to_remove
                       THEN acc
                       ELSE CoverageInner(ms, coverage_map, threshold, i, i + 1, acc))

\* SubsumptionAnalyzer._apply_coverage_subsumption: the list returned, the number
\* added to stats['coverage_subsumed'] and the mapper's cache afterwards
_apply_coverage_subsumption(ms, cache, threshold) ==
    LET cov == map_mutant_coverage(ms, cache)
        acc == CoverageOuter(ms, cov.coverage_map, threshold, 1,
                             [to_remove |-> {}, count |-> 0])
    IN  [remaining |-> WithoutRemoved(ms, acc.to_remove),
         subsumed |-> acc.count,
         cache |-> cov.cache]

\* SubsumptionAnalyzer.filter_redundant up to the assignment of total_output:
\* the final list, the statistics and the mapper's cache
filter_redundant(ms, st, cache, threshold) ==
    LET s1 == _remove_exact_duplicates(ms)
        s2 == _cluster_by_location(s1.unique)
        s3 == _apply_operator_subsumption(s2.selected)
        s4 == _apply_coverage_subsumption(s3.remaining, cache, threshold)
    IN  [final |-> s4.remaining,
         stats |-> [total_input |-> Len(ms),
                    exact_duplicates |-> st.exact_duplicates + s1.duplicates,
                    location_clustered |-> st.location_clustered + s2.clustered,
                    operator_subsumed |-> st.operator_subsumed + s3.subsumed,
                    coverage_subsumed |-> st.coverage_subsumed + s4.subsumed,
                    total_output |-> Len(s4.remaining)],
         cache |-> s4.cache]

----------------------------------------------------------------------------
(* State after construction *)

\* SubsumptionAnalyzer.__init__: all counters 0
InitialStats ==
    [total_input |-> 0, exact_duplicates |-> 0, coverage_subsumed |-> 0,
     operator_subsumed |-> 0, location_clustered |-> 0, total_output |-> 0]

NoExplanation ==
    [mutant_id |-> 0, final_score |-> Zero,
     raw_value |-> [f \in FactorNames |-> Zero],
     weighted_contribution |-> [f \in FactorNames |-> Zero]]

\* files, operators and metrics the scorer's batches are drawn from
ScoreFiles == {"a.py", "b.py"}
ScoreKinds ==
    {<<"a.py", "ARITHMETIC">>, <<"a.py", "BOUNDARY">>,
     <<"b.py", "ARITHMETIC">>, <<"b.py", "OTHER">>}

ModerateMetrics ==
    [cyclomatic_complexity |-> 10, cognitive_complexity |-> 15, nesting_depth |-> 5,
      number_of_parameters |-> 4, is_public_api |-> TRUE,
      is_security_critical |-> FALSE, last_modified_days_ago |-> 0]

CriticalMetrics ==
    [cyclomatic_complexity |-> 40, cognitive_complexity |-> 30, nesting_depth |-> 2,
      number_of_parameters |-> 8, is_public_api |-> TRUE,
      is_security_critical |-> TRUE, last_modified_days_ago |-> 5]

\* metrics providers: <<analyze_file's answers, the bug history loaded>>
Providers ==
    {<<[f \in ScoreFiles |-> DefaultCodeMetrics], <<>>>>,
     <<[f \in ScoreFiles |-> IF f = "a.py" THEN CriticalMetrics ELSE ModerateMetrics],
       [f \in ScoreFiles |-> IF f = "a.py" THEN 12 ELSE 4]>>}

\* a batch of freshly generated mutants with ids 1..n
ScoreBatches ==
    UNION {[1..n -> ScoreKinds] : n \in 0..MaxBatch}

MakeBatch(b) ==
    [i \in 1..Len(b) |-> Mutant(i, b[i][1], 10, 0, b[i][2], "a - b")]

InitCommon ==
    /\ inp = <<>>
    /\ op = "init"
    /\ arg = 0
    /\ ret = Zero
    /\ explanation = NoExplanation
    /\ err = "none"
    /\ scored = FALSE
    /\ history = InitialHistory
    /\ metrics_cache = <<>>
    /\ stats = InitialStats
    /\ cov_cache = <<>>
    /\ returned_map = <<>>

InitScorer ==
    /\ InitCommon
    /\ \E b \in ScoreBatches : mutants = MakeBatch(b)
    /\ \E p \in Providers : file_metrics = p[1] /\ bug_history = p[2]
    /\ similarity_threshold = 90

----------------------------------------------------------------------------
(* Scorer operations *)

\* scored = scorer.score_all(mutants)
ScoreAll ==
    /\ inp' = mutants
    /\ op' = "score_all"
    /\ arg' = 0
    /\ ret' = Zero
    /\ explanation' = NoExplanation
    /\ IF mutants = <<>>
       THEN /\ err' = "ValueError"
            /\ UNCHANGED <<mutants, metrics_cache, scored>>
       ELSE \E r \in {score_all(mutants, metrics_cache)} :
                /\ mutants' = r.mutants
                /\ metrics_cache' = r.cache
                /\ scored' = IF r.err = "none" THEN TRUE ELSE scored
                /\ err' = r.err
    /\ UNCHANGED <<providerVars, analyzerVars>>

\* scorer.score_single(mutants[i]): no context
ScoreSingle(i) ==
    \E pre \in {_precompute_metrics(<<mutants[i]>>, metrics_cache)} :
        /\ inp' = <<>>
        /\ op' = "score_single"
        /\ arg' = i
        /\ ret' = IF pre.err = "none"
                  THEN _weighted_sum(_compute_factors_single(pre.mutants[1]))
                  ELSE Zero
        /\ explanation' = NoExplanation
        /\ mutants' = [mutants EXCEPT ![i] = pre.mutants[1]]
        /\ metrics_cache' = pre.cache
        /\ err' = pre.err
        /\ UNCHANGED <<scored, providerVars, analyzerVars>>

\* scorer.score_single(mutants[i], context) with the other mutants as context
ScoreSingleInContext(i) ==
    /\ Others(mutants, i) # <<>>
    /\ \E r \in {score_all(<<mutants[i]>> \o Others(mutants, i), metrics_cache)} :
        /\ inp' = <<>>
        /\ op' = "score_single_context"
        /\ arg' = i
        /\ ret' = IF r.err = "none" THEN r.mutants[1].priority_score ELSE Zero
        /\ explanation' = NoExplanation
        /\ mutants' = [k \in 1..Len(mutants) |-> ObjectAfter(mutants[k].id, r.mutants)]
        /\ metrics_cache' = r.cache
        /\ err' = r.err
        /\ UNCHANGED <<scored, providerVars, analyzerVars>>

\* scorer.explain_score(mutants[i])
ExplainScore(i) ==
    /\ inp' = <<>>
    /\ op' = "explain_score"
    /\ arg' = i
    /\ ret' = Zero
    /\ explanation' = explain_score(mutants[i])
    /\ err' = "none"
    /\ UNCHANGED <<mutants, scored, metrics_cache, providerVars, analyzerVars>>

NextScorer ==
    \/ ScoreAll
    \/ \E i \in 1..Len(mutants) : ScoreSingle(i)
    \/ \E i \in 1..Len(mutants) : ScoreSingleInContext(i)
    \/ \E i \in 1..Len(mutants) : ExplainScore(i)

SpecScorer == InitScorer /\ [][NextScorer]_vars

\* a scorer whose analyzer raises for a.py and answers for b.py
InitFailingAnalyzer ==
    /\ InitCommon
    /\ \E b \in ScoreBatches : mutants = MakeBatch(b)
    /\ file_metrics = [f \in {"b.py"} |-> ModerateMetrics]
    /\ \E h \in {<<>>, [f \in {"b.py"} |-> 4]} : bug_history = h
    /\ similarity_threshold = 90

SpecFailingAnalyzer == InitFailingAnalyzer /\ [][NextScorer]_vars

----------------------------------------------------------------------------
(* Analyzer: state after construction *)

\* scored mutants the analyzer's input lists are drawn from:
\* <<file_path, line_start, column_start, operator, mutated_code, priority_score>>
AnalyzerKinds ==
    {<<"a.py", 10, 0, "BOUNDARY", "a - b", 8>>,
     <<"a.py", 10, 0, "BOUNDARY", "a - b", 6>>,
     <<"a.py", 10, 0, "NEGATE", "a - b", 8>>,
     <<"a.py", 12, 0, "NEGATE", "a - b", 6>>,
     <<"a.py", 12, 4, "BOUNDARY", "a * b", 0>>,
     <<"a.py", 16, 0, "NEGATE", "a - b", 0>>,
     <<"a.py", 16, 0, "ARITHMETIC", "a * b", 8>>,
     <<"b.py", 12, 0, "NEGATE", "a - b", 6>>,
     <<"b.py", 10, 0, "BOUNDARY", "a - b", 8>>}

AnalyzerLists ==
    UNION {[1..n -> AnalyzerKinds] : n \in 0..MaxLen}

ScoredMutant(id, k) ==
    [Mutant(id, k[1], k[2], k[3], k[4], k[5]) EXCEPT !.priority_score = Rat(k[6], 1)]

MakeList(l) ==
    [i \in 1..Len(l) |-> ScoredMutant(i, l[i])]

\* similarity_threshold values given to the constructor, in percent
Thresholds == {50, 90}

ActualTest(n) == <<"test", "actual", n>>

\* coverage data handed to load_actual_coverage: nested sets and an empty one
ActualCoverage ==
    (<<"a.py", 10>> :> {ActualTest(1), ActualTest(2), ActualTest(3), ActualTest(4)})
    @@ (<<"a.py", 12>> :> {ActualTest(1), ActualTest(2)})
    @@ (<<"a.py", 16>> :> {ActualTest(1)})
    @@ (<<"b.py", 12>> :> {})

InitAnalyzer ==
    /\ InitCommon
    /\ \E l \in AnalyzerLists : mutants = MakeList(l)
    /\ file_metrics = [f \in ScoreFiles |-> DefaultCodeMetrics]
    /\ bug_history = <<>>
    /\ similarity_threshold \in Thresholds

----------------------------------------------------------------------------
(* Analyzer operations *)

AnalyzerCall(name) ==
    /\ inp' = mutants
    /\ op' = name
    /\ arg' = 0
    /\ returned_map' = <<>>
    /\ UNCHANGED <<scorerVars, providerVars, similarity_threshold>>

\* mutants = analyzer._remove_exact_duplicates(mutants)
RemoveExactDuplicates ==
    /\ AnalyzerCall("remove_exact_duplicates")
    /\ \E r \in {_remove_exact_duplicates(mutants)} :
        /\ mutants' = r.unique
        /\ stats' = [stats EXCEPT !.exact_duplicates = @ + r.duplicates]
    /\ err' = "none"
    /\ UNCHANGED cov_cache

\* mutants = analyzer._cluster_by_location(mutants)
ClusterByLocation ==
    /\ AnalyzerCall("cluster_by_location")
    /\ \E r \in {_cluster_by_location(mutants)} :
        /\ mutants' = r.selected
        /\ stats' = [stats EXCEPT !.location_clustered = @ + r.clustered]
    /\ err' = "none"
    /\ UNCHANGED cov_cache

\* mutants = analyzer._apply_operator_subsumption(mutants)
ApplyOperatorSubsumption ==
    /\ AnalyzerCall("apply_operator_subsumption")
    /\ \E r \in {_apply_operator_subsumption(mutants)} :
        /\ mutants' = r.remaining
        /\ stats' = [stats EXCEPT !.operator_subsumed = @ + r.subsumed]
    /\ err' = "none"
    /\ UNCHANGED cov_cache

\* mutants = analyzer._apply_coverage_subsumption(mutants)
ApplyCoverageSubsumption ==
    /\ AnalyzerCall("apply_coverage_subsumption")
    /\ \E r \in {_apply_coverage_subsumption(mutants, cov_cache, similarity_threshold)} :
        /\ mutants' = r.remaining
        /\ stats' = [stats EXCEPT !.coverage_subsumed = @ + r.subsumed]
        /\ cov_cache' = r.cache
    /\ err' = "none"

\* mutants = analyzer.filter_redundant(mutants); on an empty list the division
\* by len(mutants) raises after the statistics were written
FilterRedundant ==
    /\ AnalyzerCall("filter_redundant")
    /\ \E r \in {filter_redundant(mutants, stats, cov_cache, similarity_threshold)} :
        /\ stats' = r.stats
        /\ cov_cache' = r.cache
        /\ IF mutants = <<>>
           THEN /\ err' = "ZeroDivisionError"
                /\ UNCHANGED mutants
           ELSE /\ err' = "none"
                /\ mutants' = r.final

\* analyzer.coverage_mapper.load_actual_coverage(ActualCoverage)
LoadActualCoverage ==
    /\ op' = "load_actual_coverage"
    /\ cov_cache' = load_actual_coverage(cov_cache, ActualCoverage)
    /\ inp' = <<>>
    /\ arg' = 0
    /\ err' = "none"
    /\ returned_map' = <<>>
    /\ UNCHANGED <<mutants, stats, similarity_threshold, scorerVars, providerVars>>

\* coverage_map = analyzer.coverage_mapper.map_mutant_coverage(mutants)
MapMutantCoverage ==
    /\ op' = "map_mutant_coverage"
    /\ inp' = mutants
    /\ arg' = 0
    /\ \E r \in {map_mutant_coverage(mutants, cov_cache)} :
        /\ returned_map' = r.coverage_map
        /\ cov_cache' = r.cache
    /\ err' = "none"
    /\ UNCHANGED <<mutants, stats, similarity_threshold, scorerVars, providerVars>>

NextAnalyzer ==
    \/ RemoveExactDuplicates
    \/ ClusterByLocation
    \/ ApplyOperatorSubsumption
    \/ ApplyCoverageSubsumption
    \/ FilterRedundant
    \/ LoadActualCoverage
    \/ MapMutantCoverage

SpecAnalyzer == InitAnalyzer /\ [][NextAnalyzer]_vars

----------------------------------------------------------------------------
(* mutant_clusterer.py *)

\* MutantClusterer.__init__: proximity_threshold's default
DefaultProximityThreshold == 10

\* the scan of one file as it would be if a gap equal to the threshold split
RECURSIVE ClusterScanSplitsAtThreshold(_, _, _, _)
ClusterScanSplitsAtThreshold(file_mutants, threshold, current_cluster, last_line) ==
    LET closed == IF current_cluster # <<>> THEN <<current_cluster>> ELSE <<>>
    IN  IF file_mutants = <<>> THEN closed
        ELSE LET mutant == Head(file_mutants)
             IN  IF mutant.line_start - last_line >= threshold
                 THEN closed \o ClusterScanSplitsAtThreshold(
                                    Tail(file_mutants), threshold, <<mutant>>,
                                    mutant.line_start)
                 ELSE ClusterScanSplitsAtThreshold(
                          Tail(file_mutants), threshold,
                          Append(current_cluster, mutant), mutant.line_start)

\* the scan of one file's mutants, sorted by line: the clusters it adds, in order
RECURSIVE ClusterScan(_, _, _, _)
ClusterScan(file_mutants, threshold, current_cluster, last_line) ==
    LET closed == IF current_cluster # <<>> THEN <<current_cluster>> ELSE <<>>
    IN  IF file_mutants = <<>> THEN closed
        ELSE LET mutant == Head(file_mutants)
             IN  IF mutant.line_start - last_line > threshold
                 THEN closed \o ClusterScan(Tail(file_mutants), threshold,
                                            <<mutant>>, mutant.line_start)
                 ELSE ClusterScan(Tail(file_mutants), threshold,
                                  Append(current_cluster, mutant), mutant.line_start)

RECURSIVE ClusterFiles(_, _, _)
ClusterFiles(files, ms, threshold) ==
    IF files = <<>> THEN <<>>
    ELSE ClusterScan(SortByLine(SelectSeq(ms, LAMBDA m : m.file_path = Head(files))),
                     threshold, <<>>, -999)
         \o ClusterFiles(Tail(files), ms, threshold)

\* MutantClusterer.cluster: the dict returned, as the sequence of its values
\* (cluster_0, cluster_1, ... in insertion order)
cluster(ms, threshold) ==
    ClusterFiles(KeysInOrder(MapSeq(FilePathOf, ms), {}), ms, threshold)

\* <<file, line>> of the mutants handed to the clusterer
ClusterKinds ==
    {<<"a.py", 10>>, <<"a.py", 20>>, <<"a.py", 21>>, <<"a.py", 31>>,
     <<"b.py", 10>>, <<"b.py", 21>>}

ClusterLists == UNION {[1..n -> ClusterKinds] : n \in 0..MaxLen}

MakeClusterList(l) ==
    [i \in 1..Len(l) |-> Mutant(i, l[i][1], l[i][2], 0, "ARITHMETIC", "a - b")]

\* the thresholds a clusterer is built with
ProximityThresholds == {DefaultProximityThreshold, 1}

InitClusterer ==
    /\ InitCommon
    /\ \E l \in ClusterLists : mutants = MakeClusterList(l)
    /\ file_metrics = [f \in ScoreFiles |-> DefaultCodeMetrics]
    /\ bug_history = <<>>
    /\ similarity_threshold = 90

\* ret = MutantClusterer(proximity_threshold).cluster(mutants); arg holds the
\* threshold
Cluster ==
    \E threshold \in ProximityThresholds :
        /\ inp' = mutants
        /\ op' = "cluster"
        /\ arg' = threshold
        /\ ret' = cluster(mutants, threshold)
        /\ err' = "none"
        /\ UNCHANGED <<mutants, explanation, scored, metrics_cache, providerVars,
                       analyzerVars>>

NextClusterer == Cluster

SpecClusterer == InitClusterer /\ [][NextClusterer]_vars

----------------------------------------------------------------------------
(* HistoryTracker on its own *)

\* operators of the executed mutants: one with a default entry, one without
HistoryOperators == {"ARITHMETIC", "OTHER"}

\* the executed mutants of a list of <<operator, status>> pairs
MakeExecuted(l) ==
    [i \in 1..Len(l) |->
        [Mutant(i, "a.py", 10, 0, l[i][1], "a - b") EXCEPT !.status = l[i][2]]]

RECURSIVE TotalGenerated(_, _)
TotalGenerated(h, operators) ==
    IF operators = {} THEN 0
    ELSE LET o == CHOOSE x \in operators : TRUE
         IN  h[o].times_generated + TotalGenerated(h, operators \ {o})

\* number of mutants recorded since the tracker was built
Recorded(h) ==
    TotalGenerated(h, DOMAIN h) - TotalGenerated(InitialHistory, DOMAIN InitialHistory)

InitHistory ==
    /\ InitCommon
    /\ mutants = <<>>
    /\ file_metrics = [f \in ScoreFiles |-> DefaultCodeMetrics]
    /\ bug_history = <<>>
    /\ similarity_threshold = 90

\* tracker.update(ms) with a list of executed mutants, as long as the tracker
\* has recorded no more than MaxRecorded mutants
Update ==
    \E room \in {MaxRecorded - Recorded(history)} :
        \E n \in 0..(IF room < MaxExecuted THEN room ELSE MaxExecuted) :
            \E l \in [1..n -> HistoryOperators \X MutantStatus] :
                \E ms \in {MakeExecuted(l)} :
                    /\ inp' = ms
                    /\ op' = "update"
                    /\ arg' = 0
                    /\ ret' = Zero
                    /\ err' = "none"
                    /\ history' = update(history, ms)
                    /\ UNCHANGED <<mutants, explanation, scored, metrics_cache,
                                   file_metrics, bug_history, analyzerVars>>

\* ret = tracker.get_operator_history(operator); inp holds the argument
GetOperatorHistory ==
    \E operator \in MutationOperator :
        /\ inp' = <<operator>>
        /\ op' = "get_operator_history"
        /\ arg' = 0
        /\ ret' = get_operator_history(operator)
        /\ err' = "none"
        /\ UNCHANGED <<mutants, explanation, scored, metrics_cache, providerVars,
                       analyzerVars>>

NextHistory ==
    \/ Update
    \/ GetOperatorHistory

SpecHistory == InitHistory /\ [][NextHistory]_vars

----------------------------------------------------------------------------
(* compute_similarity on its own *)

\* test ids the arguments of compute_similarity are drawn from
TestIds == {<<"test", "t", n>> : n \in 1..MaxTests}

InitSimilarity ==
    /\ InitCommon
    /\ mutants = <<>>
    /\ file_metrics = [f \in ScoreFiles |-> DefaultCodeMetrics]
    /\ bug_history = <<>>
    /\ similarity_threshold = 90

\* ret = CoverageMapper.compute_similarity(tests1, tests2); inp holds the two
\* arguments
ComputeSimilarity ==
    \E tests1 \in SUBSET TestIds : \E tests2 \in SUBSET TestIds :
        /\ inp' = <<tests1, tests2>>
        /\ op' = "compute_similarity"
        /\ arg' = 0
        /\ ret' = compute_similarity(tests1, tests2)
        /\ err' = "none"
        /\ UNCHANGED <<mutants, explanation, scored, metrics_cache, providerVars,
                       analyzerVars>>

NextSimilarity == ComputeSimilarity

SpecSimilarity == InitSimilarity /\ [][NextSimilarity]_vars

----------------------------------------------------------------------------
(* Claims about the scorer, checked under SpecScorer *)

Ten == <<10, 1>>

\* position in the input list of the mutant with this id
PosInInput(id) == CHOOSE k \in 1..Len(inp) : inp[k].id = id

ScoreAllReturned == op = "score_all" /\ err = "none"

\* C1: after score_all returns on a non-empty batch with unique ids, every mutant
\* of the batch has a priority_score between 0 and 10 inclusive
C1_ScoreInRange ==
    ScoreAllReturned =>
        \A i \in 1..Len(mutants) :
            /\ RLe(Zero, mutants[i].priority_score)
            /\ RLe(mutants[i].priority_score, Ten)

\* a batch of three was scored, one mutant above 5 and one below
C1_Witness ==
    /\ ScoreAllReturned
    /\ Len(mutants) = 3
    /\ \E i, j \in 1..Len(mutants) :
           /\ RLt(<<5, 1>>, mutants[i].priority_score)
           /\ RLt(mutants[j].priority_score, <<5, 1>>)

\* C2: score_all returns a permutation of its input, in descending order of
\* priority_score, mutants of equal score in the order they had in the input
C2_StableDescendingPermutation ==
    ScoreAllReturned =>
        /\ Len(mutants) = Len(inp)
        /\ \A k \in 1..Len(inp) :
               Cardinality({i \in 1..Len(mutants) : mutants[i].id = inp[k].id}) = 1
        /\ \A i, j \in 1..Len(mutants) :
               i < j =>
                   /\ RLe(mutants[j].priority_score, mutants[i].priority_score)
                   /\ mutants[i].priority_score = mutants[j].priority_score
                          => PosInInput(mutants[i].id) < PosInInput(mutants[j].id)

\* the sort moved a mutant ahead of two mutants of equal score
C2_Witness ==
    /\ ScoreAllReturned
    /\ Len(mutants) = 3
    /\ mutants[2].priority_score = mutants[3].priority_score
    /\ mutants[1].priority_score # mutants[2].priority_score
    /\ PosInInput(mutants[1].id) = 3

\* C8: score_single(m) with no context returns the priority_score that score_all
\* assigns to m in the singleton batch [m]
C8_SingleEqualsSingletonBatch ==
    op = "score_single" =>
        ret = score_all(<<mutants[arg]>>, metrics_cache).mutants[1].priority_score

\* C9: score_single(m, C) with a non-empty context returns the priority_score
\* that score_all assigned to m itself in the batch [m] + C
C9_SingleInContextReturnsOwnScore ==
    op = "score_single_context" => ret = mutants[arg].priority_score

\* sum of the five weighted_contribution values of an explanation
ContributionSum(e) ==
    RAdd(RAdd(RAdd(RAdd(e.weighted_contribution.historical,
                        e.weighted_contribution.complexity),
                   e.weighted_contribution.security),
              e.weighted_contribution.recency),
         e.weighted_contribution.bug_history)

\* C10: for a mutant scored by score_all, the weighted_contribution values of
\* explain_score sum, up to rounding, to the final_score of the same explanation
C10_ContributionsSumToFinalScore ==
    (op = "explain_score" /\ scored) =>
        LET d == RSub(ContributionSum(explanation), explanation.final_score)
        IN  RLe(<<-1, 1000>>, d) /\ RLe(d, <<1, 1000>>)

\* C11: score_all called again on the list a first score_all returned, with the
\* scorer, the metrics and the history unchanged in between, leaves every
\* priority_score and the order of the list unchanged
C11_ScoreAllIdempotent ==
    [][(ScoreAllReturned /\ op' = "score_all") =>
           /\ err' = "none"
           /\ Len(mutants') = Len(mutants)
           /\ \A i \in 1..Len(mutants) :
                  /\ mutants'[i].id = mutants[i].id
                  /\ mutants'[i].priority_score = mutants[i].priority_score]_vars

\* score_all was given a list of MaxBatch mutants it had returned before, of
\* which two tie and one differs
C11_Witness ==
    /\ ScoreAllReturned
    /\ Len(mutants) = MaxBatch
    /\ inp = mutants
    /\ \E i, j \in 1..Len(mutants) :
           /\ i # j
           /\ mutants[i].priority_score = mutants[j].priority_score
    /\ \E i, j \in 1..Len(mutants) :
           mutants[i].priority_score # mutants[j].priority_score

\* the raw value of factor f for a mutant
RawFactor(f, m) ==
    CASE f = "historical" -> _historical_factor(m)
      [] f = "complexity" -> _complexity_factor(m)
      [] f = "security" -> _security_factor(m)
      [] f = "recency" -> _recency_factor(m)
      [] f = "bug_history" -> _bug_history_factor(m)

\* raw values of factor f over the batch score_all returned
RawValues(f) == {RawFactor(f, mutants[k]) : k \in 1..Len(mutants)}

RawMin(f) == CHOOSE v \in RawValues(f) : \A w \in RawValues(f) : RLe(v, w)

RawMax(f) == CHOOSE v \in RawValues(f) : \A w \in RawValues(f) : RLe(w, v)

\* C12: for each of the five factors and every non-empty batch, each normalized
\* value of _compute_normalized_factors lies in [0, 1]; it is 0.5 when all raw
\* values of the factor are equal in the batch and (v - min)/(max - min) otherwise
C12_NormalizedIsMinMaxScaled ==
    ScoreAllReturned =>
        \A normalized \in {_compute_normalized_factors(mutants)} :
        \A f \in FactorNames :
        \A lo \in {RawMin(f)} : \A hi \in {RawMax(f)} :
        \A i \in 1..Len(mutants) :
            LET n == normalized[mutants[i].id][f]
            IN  /\ RLe(Zero, n)
                /\ RLe(n, One)
                /\ IF lo = hi
                   THEN n = Half
                   ELSE n = RDiv(RSub(RawFactor(f, mutants[i]), lo), RSub(hi, lo))

\* a batch has one factor with equal raw values and another whose normalized
\* values include one strictly between 0 and 1
C12_Witness ==
    /\ ScoreAllReturned
    /\ \E f \in FactorNames : RawMin(f) = RawMax(f)
    /\ \E f \in FactorNames : \E i \in 1..Len(mutants) :
           LET n == _compute_normalized_factors(mutants)[mutants[i].id][f]
           IN  RLt(Zero, n) /\ RLt(n, One)

----------------------------------------------------------------------------
(* Claims about the subsumption analyzer *)

\* ids of the mutants in the list the last call returned
SurvivorIds == {mutants[k].id : k \in 1..Len(mutants)}

\* the mutant at position j of the last call's input is missing from its output
Removed(j) == inp[j].id \notin SurvivorIds

\* the covering test set the mapper holds for a mutant
Cov(m) == cov_cache[CacheKey(m)]

JaccardAtLeast(c1, c2, threshold) ==
    100 * Cardinality(c1 \cap c2) >= threshold * Cardinality(c1 \cup c2)

\* the elements of s at the positions in idx, in the order of s
Pick(s, idx) ==
    [k \in 1..Cardinality(idx) |->
        s[CHOOSE j \in idx : Cardinality({i \in idx : i < j}) = k - 1]]

\* C3 as stated: stage 4 removes B only when some other mutant A of the input has
\* a related operator, B's covering set is non-empty and a PROPER subset of A's,
\* and the Jaccard similarity of the two sets reaches the threshold.
C3_RemovedOnlyIfProperSubset ==
    op = "apply_coverage_subsumption" =>
        \A j \in 1..Len(inp) : Removed(j) =>
            \E i \in 1..Len(inp) :
                /\ i # j
                /\ _are_operators_related(inp[i].operator, inp[j].operator)
                /\ Cov(inp[j]) # {}
                /\ Cov(inp[j]) \subseteq Cov(inp[i])
                /\ Cov(inp[j]) # Cov(inp[i])
                /\ JaccardAtLeast(Cov(inp[i]), Cov(inp[j]), similarity_threshold)

\* C3 amended: stage 4 removes B only when some other mutant A of the input has a
\* related operator, B's covering set is non-empty and a subset of A's (equal
\* sets included), and the Jaccard similarity of the two sets reaches the
\* threshold.
C3_RemovedOnlyIfSubset ==
    op = "apply_coverage_subsumption" =>
        \A j \in 1..Len(inp) : Removed(j) =>
            \E i \in 1..Len(inp) :
                /\ i # j
                /\ _are_operators_related(inp[i].operator, inp[j].operator)
                /\ Cov(inp[j]) # {}
                /\ Cov(inp[j]) \subseteq Cov(inp[i])
                /\ JaccardAtLeast(Cov(inp[i]), Cov(inp[j]), similarity_threshold)

\* stage 4 removed a mutant whose covering set is a proper subset of another's
C3_Witness ==
    /\ op = "apply_coverage_subsumption"
    /\ \E j \in 1..Len(inp) : \E i \in 1..Len(inp) :
        /\ Removed(j)
        /\ ~Removed(i)
        /\ Cov(inp[j]) \subseteq Cov(inp[i])
        /\ Cov(inp[j]) # Cov(inp[i])

\* C4: on the same input and the same coverage data, stage 4 and the whole
\* pipeline leave with threshold 0 at most as many mutants as with the
\* analyzer's threshold t > 0.  (The cache after the call holds the coverage of
\* every location of the input, so a run from it reads the same coverage data.)
C4_ZeroThresholdNeverLeavesMore ==
    /\ op = "apply_coverage_subsumption" =>
           Len(_apply_coverage_subsumption(inp, cov_cache, 0).remaining) <= Len(mutants)
    /\ (op = "filter_redundant" /\ err = "none") =>
           Len(filter_redundant(inp, stats, cov_cache, 0).final) <= Len(mutants)

\* threshold 0 removes a mutant that the analyzer's threshold kept
C4_Witness ==
    /\ op = "apply_coverage_subsumption"
    /\ similarity_threshold > 0
    /\ Len(_apply_coverage_subsumption(inp, cov_cache, 0).remaining) < Len(mutants)

\* the six fields C5 names
C5Key(m) ==
    <<m.file_path, m.line_start, m.column_start, m.operator, m.original_code,
      m.mutated_code>>

\* C5: stage 1 returns, in input order, exactly the first mutant of each distinct
\* key (file_path, line_start, column_start, operator, original_code,
\* mutated_code); on a fresh analyzer, N mutants sharing one key leave one
\* survivor and exact_duplicates = N - 1.
C5_FirstOfEachKeyKept ==
    [][op' = "remove_exact_duplicates" =>
        /\ mutants' = Pick(mutants,
                           {j \in 1..Len(mutants) :
                               \A i \in 1..(j - 1) : C5Key(mutants[i]) # C5Key(mutants[j])})
        /\ ( /\ stats = InitialStats
             /\ mutants # <<>>
             /\ \A i \in 1..Len(mutants) : C5Key(mutants[i]) = C5Key(mutants[1]) )
           => /\ Len(mutants') = 1
              /\ stats'.exact_duplicates = Len(mutants) - 1]_vars

\* a fresh analyzer was given MaxLen mutants of one key
C5_Witness ==
    /\ op = "remove_exact_duplicates"
    /\ Len(inp) = MaxLen
    /\ \A i \in 1..Len(inp) : C5Key(inp[i]) = C5Key(inp[1])
    /\ Len(mutants) = 1
    /\ stats = [InitialStats EXCEPT !.exact_duplicates = MaxLen - 1]

C6Key(m) == <<m.file_path, m.line_start, m.column_start>>

\* C6: stage 2 returns exactly one mutant per distinct (file_path, line_start,
\* column_start) of its input: one of highest priority_score in its group and,
\* among those of highest score, the first of the input; location_clustered
\* grows by the size of each group minus one.
C6_BestOfEachLocationKept ==
    [][op' = "cluster_by_location" =>
        LET keys == {C6Key(mutants[j]) : j \in 1..Len(mutants)}
        IN  /\ Len(mutants') = Cardinality(keys)
            /\ \A key \in keys :
                \E k \in 1..Len(mutants') : \E j \in 1..Len(mutants) :
                    /\ mutants'[k] = mutants[j]
                    /\ C6Key(mutants[j]) = key
                    /\ \A i \in 1..Len(mutants) : C6Key(mutants[i]) = key =>
                        /\ RLe(mutants[i].priority_score, mutants[j].priority_score)
                        /\ mutants[i].priority_score = mutants[j].priority_score => j <= i
            /\ stats'.location_clustered =
                   stats.location_clustered + (Len(mutants) - Cardinality(keys))]_vars

\* stage 2 chose among mutants of one location that tie for the highest score
C6_Witness ==
    /\ op = "cluster_by_location"
    /\ Len(mutants) < Len(inp)
    /\ \E i \in 1..Len(inp) : \E j \in 1..Len(inp) : \E l \in 1..Len(inp) :
        /\ i < j
        /\ C6Key(inp[i]) = C6Key(inp[j])
        /\ C6Key(inp[l]) = C6Key(inp[j])
        /\ inp[i].priority_score = inp[j].priority_score
        /\ RLt(inp[l].priority_score, inp[j].priority_score)
        /\ ~Removed(i)
    /\ stats.location_clustered > 0

\* the table C7 names
C7Table(operator) ==
    CASE operator = "ARITHMETIC" -> {"INCREMENT"}
      [] operator = "BOUNDARY" -> {"NEGATE"}
      [] operator = "RETURN" -> {"VOID_CALL"}
      [] OTHER -> {}

\* A (position i of the input) is sorted before B (position j) in their file
SortedBefore(i, j) ==
    /\ inp[i].file_path = inp[j].file_path
    /\ \/ inp[i].line_start < inp[j].line_start
       \/ inp[i].line_start = inp[j].line_start /\ i < j

StatsOfThisRun(st, given, returned) ==
    /\ st.total_input - st.total_output =
           st.exact_duplicates + st.location_clustered + st.operator_subsumed
           + st.coverage_subsumed
    /\ st.total_input = Len(given)
    /\ st.total_output = Len(returned)

\* C13: after every filter_redundant call that returns (the first on an analyzer
\* and any later one on the same analyzer), the statistics are the counts of that
\* run: total_input - total_output = exact_duplicates + location_clustered +
\* operator_subsumed + coverage_subsumed, total_input is the input length and
\* total_output the output length.
C13_StatisticsOfThisRun ==
    [][( /\ op \in {"init", "filter_redundant"}
         /\ err = "none"
         /\ op' = "filter_redundant"
         /\ err' = "none" )
       => StatsOfThisRun(stats', mutants, mutants')]_vars

\* C14: filter_redundant([]) and score_all([]) each return an empty list without
\* raising an error.
C14_EmptyBatchReturnsEmpty ==
    (op \in {"filter_redundant", "score_all"} /\ inp = <<>>) =>
        /\ err = "none"
        /\ mutants = <<>>

\* number of mutants of a list that repeat the six-field key of an earlier one
\* (10 for 5 groups of 3 identical mutants among unique ones)
DuplicateCount(ms) ==
    Len(ms) - Cardinality({C5Key(ms[i]) : i \in 1..Len(ms)})

\* C15 as stated, for groups of identical mutants of any number and size: when
\* the input of filter_redundant on a fresh analyzer contains groups of mutants
\* identical in file, line, column, operator, original and mutated code, then
\* exact_duplicates >= 0, location_clustered >= the number of repeats (10 for 5
\* groups of 3) and total_output < total_input.
C15_DuplicatesCountedAsClustered ==
    [][( /\ stats = InitialStats
         /\ DuplicateCount(mutants) >= 1
         /\ op' = "filter_redundant" )
       => /\ stats'.exact_duplicates >= 0
          /\ stats'.location_clustered >= DuplicateCount(mutants)
          /\ stats'.total_output < stats'.total_input]_vars

\* C15 amended: the repeats are reported by exact_duplicates: exact_duplicates >=
\* the number of repeats (10 for 5 groups of 3), location_clustered >= 0 and
\* total_output < total_input.
C15_DuplicatesCountedAsExact ==
    [][( /\ stats = InitialStats
         /\ DuplicateCount(mutants) >= 1
         /\ op' = "filter_redundant" )
       => /\ stats'.exact_duplicates >= DuplicateCount(mutants)
          /\ stats'.location_clustered >= 0
          /\ stats'.total_output < stats'.total_input]_vars

\* filter_redundant ran on identical mutants together with a unique one and
\* reported the repeats as exact duplicates
C15_Witness ==
    /\ op = "filter_redundant"
    /\ DuplicateCount(inp) >= 1
    /\ DuplicateCount(inp) < Len(inp) - 1
    /\ stats.exact_duplicates = DuplicateCount(inp)
    /\ stats.location_clustered = 0
    /\ StatsOfThisRun(stats, inp, mutants)

\* C16: after stage 4, for every ordered pair (A, B) of distinct mutants of the
\* stage's input with related operators, in either list order, if A's covering
\* set is a proper superset of B's non-empty covering set and their Jaccard
\* similarity is at least the threshold, then B is not in the stage's output.
C16_EverySubsumedMutantRemoved ==
    op = "apply_coverage_subsumption" =>
        \A i \in 1..Len(inp) : \A j \in 1..Len(inp) :
            ( /\ i # j
              /\ _are_operators_related(inp[i].operator, inp[j].operator)
              /\ Cov(inp[j]) # {}
              /\ Cov(inp[j]) \subseteq Cov(inp[i])
              /\ Cov(inp[j]) # Cov(inp[i])
              /\ JaccardAtLeast(Cov(inp[i]), Cov(inp[j]), similarity_threshold) )
            => Removed(j)

\* C17: filter_redundant applied to the list filter_redundant returned, with the
\* same coverage mapper and threshold, returns the same mutants in the same
\* order and removes nothing.
C17_FilterRedundantIdempotent ==
    [][( /\ op = "filter_redundant"
         /\ err = "none"
         /\ op' = "filter_redundant" )
       => mutants' = mutants]_vars

\* filter_redundant was given a list of two or more mutants that it had left
\* after removing some: it returned the list as given
C17_Witness ==
    /\ op = "filter_redundant"
    /\ err = "none"
    /\ Len(inp) >= 2
    /\ inp = mutants
    /\ stats.exact_duplicates + stats.location_clustered + stats.operator_subsumed
       + stats.coverage_subsumed >= 1

----------------------------------------------------------------------------
(* Claims about the coverage mapper *)

\* C18: compute_similarity(A, B) = compute_similarity(B, A); it is 1.0 when both
\* sets are empty, 0.0 when exactly one is empty, and otherwise |A n B| / |A u B|,
\* a value in [0, 1].
C18_SimilarityIsSymmetricJaccard ==
    op = "compute_similarity" =>
        LET A == inp[1]
            B == inp[2]
        IN  /\ ret = compute_similarity(B, A)
            /\ (A = {} /\ B = {}) => ret = One
            /\ ((A = {}) # (B = {})) => ret = Zero
            /\ (A # {} /\ B # {}) =>
                   /\ ret[1] * Cardinality(A \cup B) = ret[2] * Cardinality(A \cap B)
                   /\ RLe(Zero, ret)
                   /\ RLe(ret, One)

\* the similarity of two overlapping sets of different sizes, neither inside the
\* other, was computed
C18_Witness ==
    /\ op = "compute_similarity"
    /\ Cardinality(inp[1]) # Cardinality(inp[2])
    /\ inp[1] \cap inp[2] # {}
    /\ ~(inp[1] \subseteq inp[2])
    /\ ~(inp[2] \subseteq inp[1])
    /\ RLt(Zero, ret)
    /\ RLt(ret, One)

\* operations that call map_mutant_coverage on the working list
MapsCoverage(name) ==
    name \in {"map_mutant_coverage", "apply_coverage_subsumption", "filter_redundant"}

\* what a fresh CoverageMapper returns for a mutant
FreshCoverage(m) == map_mutant_coverage(<<m>>, <<>>).coverage_map[m.id]

\* C19: map_mutant_coverage is deterministic per location: a call returns for
\* each mutant the set the mapper holds for its location, no call that maps
\* coverage changes a set the mapper holds (so repeated calls for a mutant,
\* whatever other mapping calls happen in between, return the identical set),
\* and the set a call derives for a new location is the one a fresh
\* CoverageMapper returns for any mutant of that file_path and line_start.
C19_CoverageDeterministicPerLocation ==
    [][MapsCoverage(op') =>
        /\ \A k \in DOMAIN cov_cache :
               k \in DOMAIN cov_cache' /\ cov_cache'[k] = cov_cache[k]
        /\ op' = "map_mutant_coverage" =>
               \A i \in 1..Len(mutants) :
                   /\ returned_map'[mutants[i].id] = cov_cache'[CacheKey(mutants[i])]
                   /\ CacheKey(mutants[i]) \notin DOMAIN cov_cache =>
                          returned_map'[mutants[i].id] = FreshCoverage(mutants[i])]_vars

\* map_mutant_coverage returned one set for two mutants of one location that
\* differ in column
C19_Witness ==
    /\ op = "map_mutant_coverage"
    /\ \E i \in 1..Len(inp) : \E j \in 1..Len(inp) :
        /\ CacheKey(inp[i]) = CacheKey(inp[j])
        /\ inp[i].column_start # inp[j].column_start
        /\ returned_map[inp[i].id] = returned_map[inp[j].id]
        /\ returned_map[inp[i].id] = FreshCoverage(inp[j])

\* C20: a map_mutant_coverage call after load_actual_coverage(D) returns D[k] for
\* every mutant whose location key k is in D, whether or not a synthetic set for
\* k had been cached before the load, and the synthetic hash-based set for every
\* mutant whose key is not in D.
C20_LoadedCoverageReturned ==
    [][(op = "load_actual_coverage" /\ op' = "map_mutant_coverage") =>
        \A i \in 1..Len(mutants) :
            returned_map'[mutants[i].id] =
                IF CacheKey(mutants[i]) \in DOMAIN ActualCoverage
                THEN ActualCoverage[CacheKey(mutants[i])]
                ELSE _generate_test_set(mutants[i])]_vars

\* after a load, map_mutant_coverage returned loaded data for one mutant and a
\* synthetic set for another, while the statistics show that stage 4 ran before
C20_Witness ==
    /\ op = "map_mutant_coverage"
    /\ stats.coverage_subsumed >= 1
    /\ \E i \in 1..Len(inp) : \E j \in 1..Len(inp) :
        /\ CacheKey(inp[i]) \in DOMAIN ActualCoverage
        /\ returned_map[inp[i].id] = ActualCoverage[CacheKey(inp[i])]
        /\ CacheKey(inp[j]) \notin DOMAIN ActualCoverage
        /\ returned_map[inp[j].id] = _generate_test_set(inp[j])

----------------------------------------------------------------------------
(* Claims about the pipeline as a whole *)

\* C21: filter_redundant changes no field of any mutant: every mutant of the
\* list it returns is, field for field, a mutant of the list it was given, and
\* appears in the result at most once; so the removed mutants are exactly the
\* input minus the output.
C21_OutputSelectsFromInput ==
    op = "filter_redundant" =>
        /\ \A k \in 1..Len(mutants) : \E j \in 1..Len(inp) : mutants[k] = inp[j]
        /\ \A k1, k2 \in 1..Len(mutants) :
               mutants[k1].id = mutants[k2].id => k1 = k2
        /\ Cardinality({j \in 1..Len(inp) : Removed(j)}) + Len(mutants) = Len(inp)

\* filter_redundant removed one mutant of a list of three whose two survivors
\* share a location key with nobody
C21_Witness ==
    /\ op = "filter_redundant"
    /\ Len(inp) = 3
    /\ Len(mutants) = 2
    /\ \E j \in 1..3 : \E i \in 1..3 :
           /\ i # j
           /\ Removed(j)
           /\ LocationKey(inp[i]) = LocationKey(inp[j])

\* m1 = ms[i] subsumes m2 = ms[j] by the pair rule of stage 4 taken alone
PairSubsumes(ms, i, j) ==
    /\ i < j
    /\ _are_operators_related(ms[i].operator, ms[j].operator)
    /\ Cov(ms[j]) # {}
    /\ Cov(ms[j]) \subseteq Cov(ms[i])
    /\ JaccardAtLeast(Cov(ms[i]), Cov(ms[j]), similarity_threshold)

RemovedByOperatorHasSurvivor ==
    op = "apply_operator_subsumption" =>
        \A j \in 1..Len(inp) : Removed(j) =>
            \E i \in 1..Len(inp) :
                /\ ~Removed(i)
                /\ SortedBefore(i, j)
                /\ inp[j].operator \in OPERATOR_SUBSUMPTIONS(inp[i].operator)
                /\ inp[j].line_start - inp[i].line_start <= 5

\* every mutant removed by stage 4 is subsumed, by the pair rule, by a mutant
\* placed before it that is in the stage's output
RemovedByCoverageHasSurvivor ==
    op = "apply_coverage_subsumption" =>
        \A j \in 1..Len(inp) : Removed(j) =>
            \E i \in 1..Len(inp) : ~Removed(i) /\ PairSubsumes(inp, i, j)

\* C29: every removal of stage 3 and of stage 4 is justified by a mutant that
\* survives the same stage: in stage 3 a mutant of the same file, before it in
\* line order and within 5 lines, whose operator subsumes its operator; in stage
\* 4 an earlier mutant of related operator that is in the output, whose coverage
\* includes its own with a Jaccard similarity of at least the threshold.
C29_EveryRemovalHasSurvivingSubsumer ==
    RemovedByOperatorHasSurvivor /\ RemovedByCoverageHasSurvivor

\* stage 4 removed a mutant that a removed mutant and a surviving one both subsume
C29_Witness ==
    /\ op = "apply_coverage_subsumption"
    /\ \E j \in 1..Len(inp) : \E i1, i2 \in 1..Len(inp) :
           /\ Removed(j) /\ Removed(i1) /\ ~Removed(i2)
           /\ PairSubsumes(inp, i1, j)
           /\ PairSubsumes(inp, i2, j)

\* the list is in descending order of priority_score
SortedDescending(ms) ==
    \A k \in 1..(Len(ms) - 1) : RLe(ms[k + 1].priority_score, ms[k].priority_score)

\* C30: when the list given to filter_redundant is sorted by descending
\* priority_score, the list returned is a subsequence of it: the survivors in the
\* order they had in the input, hence still sorted by descending priority_score.
C30_SortedInputGivesSubsequence ==
    (op = "filter_redundant" /\ SortedDescending(inp)) =>
        /\ mutants = Pick(inp, {j \in 1..Len(inp) : ~Removed(j)})
        /\ SortedDescending(mutants)

\* filter_redundant was given a sorted list of three in which the first and the
\* last mutant share a location and a score but not the operator, and
\* returned the first two
C30_Witness ==
    /\ op = "filter_redundant"
    /\ SortedDescending(inp)
    /\ Len(inp) = 3
    /\ Len(mutants) = 2
    /\ LocationKey(inp[1]) = LocationKey(inp[3])
    /\ LocationKey(inp[1]) # LocationKey(inp[2])
    /\ inp[1].operator # inp[3].operator
    /\ inp[1].priority_score = inp[3].priority_score
    /\ Removed(3)

----------------------------------------------------------------------------
(* Claims about the scorer's collaborators *)

\* the fields of a mutant that identify it and its mutation
Identity(m) ==
    <<m.id, m.file_path, m.line_start, m.column_start, m.operator,
      m.original_code, m.mutated_code, m.status>>

\* C22: score_all and score_single change, on any mutant handed to them (the
\* context mutants included), only code_metrics, historical_data and
\* priority_score: id, location, operator, original_code, mutated_code and
\* status of every mutant are what they were before the call.
C22_ScoringKeepsIdentity ==
    [][op' \in {"score_all", "score_single", "score_single_context"} =>
          /\ Len(mutants') = Len(mutants)
          /\ \A k \in 1..Len(mutants) :
                 /\ \E l \in 1..Len(mutants') : mutants'[l].id = mutants[k].id
                 /\ Identity(ObjectAfter(mutants[k].id, mutants'))
                        = Identity(mutants[k])]_vars

\* score_all gave a batch of three its metrics, history and scores
C22_Witness ==
    /\ ScoreAllReturned
    /\ Len(inp) = 3
    /\ \A k \in 1..3 :
           /\ inp[k].code_metrics = None
           /\ ObjectAfter(inp[k].id, mutants).code_metrics # None
           /\ ObjectAfter(inp[k].id, mutants).historical_data # None
    /\ \E k \in 1..3 : mutants[k].priority_score # Zero

\* C28: when analyze_file raises for some file during score_all, score_all still
\* returns normally: the mutants of that file get the neutral default metrics
\* (all zero, not public, not security-critical, age 999) and every mutant of the
\* batch has its metrics and history attached.
C28_AnalysisFailureIsAbsorbed ==
    (op = "score_all" /\ inp # <<>>) =>
        /\ err = "none"
        /\ \A k \in 1..Len(mutants) :
               /\ mutants[k].code_metrics # None
               /\ mutants[k].historical_data # None
               /\ AnalyzeFileRaises(mutants[k].file_path)
                      => mutants[k].code_metrics = Some(DefaultCodeMetrics)

----------------------------------------------------------------------------
(* Claims about HistoryTracker *)

\* a counter of the operator's stored entry; an operator without entry has none
\* and counts as 0, the value update starts a new entry with
Counters(h, operator) ==
    IF operator \in DOMAIN h THEN h[operator] ELSE HistoricalData(operator, 0, 0, 0)

\* number of mutants of the list with this operator and one of these statuses
CountOf(ms, operator, statuses) ==
    Cardinality({k \in 1..Len(ms) :
                    ms[k].operator = operator /\ ms[k].status \in statuses})

\* C23 as stated: update changes counters only for killed and survived mutants:
\* each killed mutant adds 1 to times_killed of its operator, each survived
\* mutant adds 1 to times_survived, and an operator of which the list holds only
\* pending, running, timeout or error mutants keeps times_generated,
\* times_killed and times_survived unchanged.
C23_OnlyKilledAndSurvivedCount ==
    [][op' = "update" =>
          \A o \in MutationOperator :
              /\ Counters(history', o).times_killed =
                     Counters(history, o).times_killed + CountOf(inp', o, {"KILLED"})
              /\ Counters(history', o).times_survived =
                     Counters(history, o).times_survived
                         + CountOf(inp', o, {"SURVIVED"})
              /\ CountOf(inp', o, {"KILLED", "SURVIVED"}) = 0
                     => Counters(history', o).times_generated =
                            Counters(history, o).times_generated]_vars

\* C23 amended: update adds 1 to times_generated of its operator for every mutant
\* of the list, whatever its status; each killed mutant adds 1 to times_killed,
\* each survived mutant adds 1 to times_survived, and a pending, running, timeout
\* or error mutant leaves times_killed and times_survived unchanged.
C23_EveryMutantCountsAsGenerated ==
    [][op' = "update" =>
          \A o \in MutationOperator :
              /\ Counters(history', o).times_killed =
                     Counters(history, o).times_killed + CountOf(inp', o, {"KILLED"})
              /\ Counters(history', o).times_survived =
                     Counters(history, o).times_survived
                         + CountOf(inp', o, {"SURVIVED"})
              /\ Counters(history', o).times_generated =
                     Counters(history, o).times_generated
                         + CountOf(inp', o, MutantStatus)]_vars

\* update recorded a killed mutant and a mutant that timed out, of one operator
C23_Witness ==
    /\ op = "update"
    /\ \E k, l \in 1..Len(inp) :
           /\ inp[k].status = "KILLED"
           /\ inp[l].status = "TIMEOUT"
           /\ inp[k].operator = inp[l].operator
           /\ history[inp[k].operator].times_generated >= 2

\* C24: over any sequence of update and get_operator_history calls the three
\* counters of an operator's stored entry never decrease (an entry is never
\* dropped), and an update leaves the entry of every operator that none of its
\* mutants has unchanged.
C24_CountersOnlyGrow ==
    [][/\ \A o \in DOMAIN history :
              /\ o \in DOMAIN history'
              /\ history'[o].times_generated >= history[o].times_generated
              /\ history'[o].times_killed >= history[o].times_killed
              /\ history'[o].times_survived >= history[o].times_survived
       /\ op' = "update" =>
              \A o \in MutationOperator :
                  CountOf(inp', o, MutantStatus) = 0 =>
                      /\ o \in DOMAIN history' <=> o \in DOMAIN history
                      /\ o \in DOMAIN history => history'[o] = history[o]]_vars

\* an update for one operator came after updates that grew two entries
C24_Witness ==
    /\ op = "update"
    /\ inp # <<>>
    /\ \A k \in 1..Len(inp) : inp[k].operator = "ARITHMETIC"
    /\ "OTHER" \in DOMAIN history
    /\ history["ARITHMETIC"].times_killed > InitialHistory["ARITHMETIC"].times_killed

\* C25: get_operator_history never fails: for every operator of the enumeration
\* it returns a HistoricalData of that operator, the stored entry when there is
\* one, and for an operator without entry the default generated = 10,
\* killed = 5, survived = 5, whose kill rate is 0.5.
C25_HistoryLookupIsTotal ==
    op = "get_operator_history" =>
        /\ err = "none"
        /\ ret.operator = inp[1]
        /\ {ret.times_generated, ret.times_killed, ret.times_survived} \subseteq Nat
        /\ inp[1] \in DOMAIN history => ret = history[inp[1]]
        /\ inp[1] \notin DOMAIN history =>
               /\ ret = HistoricalData(inp[1], 10, 5, 5)
               /\ kill_rate(ret) = Half

\* the history of an operator without entry was asked for
C25_Witness ==
    /\ op = "get_operator_history"
    /\ inp[1] \notin DOMAIN history
    /\ ret.times_generated = 10

----------------------------------------------------------------------------
(* Claims about MutantClusterer *)

\* the clusters of the last cluster call that hold the mutant at position k of
\* its input
ClustersOf(k) ==
    {c \in 1..Len(ret) : \E p \in 1..Len(ret[c]) : ret[c][p].id = inp[k].id}

\* positions i and j of the input are mutants of one file, adjacent in the order
\* of line_start: no mutant of the file lies strictly between their lines
AdjacentInFile(i, j) ==
    /\ i # j
    /\ inp[i].file_path = inp[j].file_path
    /\ inp[i].line_start <= inp[j].line_start
    /\ ~\E k \in 1..Len(inp) :
           /\ inp[k].file_path = inp[i].file_path
           /\ inp[i].line_start < inp[k].line_start
           /\ inp[k].line_start < inp[j].line_start

\* C26: cluster partitions its input: every mutant is in exactly one cluster
\* and once, no cluster is empty, the mutants of a cluster have one file_path,
\* and two mutants of one file adjacent in line_start order are in the same
\* cluster exactly when their line gap is at most proximity_threshold.
C26_ClusterPartitionsByProximity ==
    op = "cluster" =>
        /\ \A k \in 1..Len(inp) : Cardinality(ClustersOf(k)) = 1
        /\ SumSeq(MapSeq(Len, ret)) = Len(inp)
        /\ \A c \in 1..Len(ret) :
               /\ ret[c] # <<>>
               /\ \A p, q \in 1..Len(ret[c]) : ret[c][p].file_path = ret[c][q].file_path
               /\ \A p \in 1..Len(ret[c]) : \E k \in 1..Len(inp) : ret[c][p] = inp[k]
        /\ \A i, j \in 1..Len(inp) :
               AdjacentInFile(i, j) =>
                   (ClustersOf(i) = ClustersOf(j)
                       <=> inp[j].line_start - inp[i].line_start <= arg)

\* with the default threshold, cluster kept two mutants 10 lines apart together
\* and split off a third of the same file 11 lines further
C26_Witness ==
    /\ op = "cluster"
    /\ arg = DefaultProximityThreshold
    /\ \E i, j, k \in 1..Len(inp) :
           /\ AdjacentInFile(i, j) /\ AdjacentInFile(j, k)
           /\ inp[j].line_start - inp[i].line_start = 10
           /\ inp[k].line_start - inp[j].line_start = 11
           /\ ClustersOf(i) = ClustersOf(j)
           /\ ClustersOf(j) # ClustersOf(k)

====
